---- MODULE Spec2Model ----
(***************************************************************************)
(* Model of src/parser/generate_ast.py: generate_AST opens                 *)
(* <output_dir>/ast.rs for writing and emits, one file.write call at a     *)
(* time, the scanner import, the AST struct and, per (base_name, types)    *)
(* entry of enum_descriptions, the enum and its visitor trait.             *)
(*                                                                         *)
(* Text is a sequence of tokens.  A token is either a literal piece of a   *)
(* Python string constant, one character of a base_name (base names are    *)
(* sequences of characters, so that capitalize() and lower() are computed  *)
(* character by character), or an opaque class name / field descriptor.    *)
(* Concatenating token sequences is string concatenation.                  *)
(***************************************************************************)
EXTENDS Integers, Sequences, FiniteSets, TLC

VARIABLES
    dirState,           \* output_dir: "missing", "unwritable" or "ok"
    exists,             \* whether <output_dir>/ast.rs exists
    content,            \* its content (a token sequence; <<>> when absent)
    existed,            \* whether ast.rs existed when the invocation began
    enum_descriptions,  \* the argument of generate_AST
    handle,             \* the file object f: "Unopened", "Open", "Finalized"
    pc,                 \* the next statement of the invocation
    i,                  \* index of the enum_descriptions entry in the loop
    j,                  \* index of the types entry in write_enum's loop
    outcome,            \* "running", "ok" (returned) or "error" (raised)
    nwrites,            \* file.write calls completed in this invocation
    failed,             \* a file.write call of this invocation has raised
    closes,             \* times the with block has closed f
    run,                \* number of the invocation
    lastOk              \* grammar and artifact of the last returned run, and
                        \* the number of runs a raising write has aborted since

vars == <<dirState, exists, content, existed, enum_descriptions, handle, pc,
          i, j, outcome, nwrites, failed, closes, run, lastOk>>

(***************************************************************************)
(* Bounds of the inputs.                                                   *)
(***************************************************************************)
MaxFamilies == 2
MaxVariants == 2
MaxFields == 2
MaxNameLen == 2
MaxRuns == 3

SeqsUpTo(S, n) == UNION {[1..k -> S] : k \in 0..n}

(***************************************************************************)
(* str.upper / str.lower on one character, str.capitalize and str.lower    *)
(* on a base_name.                                                         *)
(***************************************************************************)
LowerChars == <<"e", "x", "p", "r", "s", "t", "m">>
UpperChars == <<"E", "X", "P", "R", "S", "T", "M">>

ToUpper(c) ==
    IF \E k \in 1..Len(LowerChars) : LowerChars[k] = c
    THEN UpperChars[CHOOSE k \in 1..Len(LowerChars) : LowerChars[k] = c]
    ELSE c

ToLower(c) ==
    IF \E k \in 1..Len(UpperChars) : UpperChars[k] = c
    THEN LowerChars[CHOOSE k \in 1..Len(UpperChars) : UpperChars[k] = c]
    ELSE c

\* base_name[0].upper() + base_name[1:], which is not what capitalize() does
capitalize_KeepsRest(name) ==
    [k \in 1..Len(name) |-> IF k = 1 THEN ToUpper(name[k]) ELSE name[k]]

\* base_name.capitalize(): first character upper-cased, the rest lower-cased
capitalize(name) ==
    [k \in 1..Len(name) |-> IF k = 1 THEN ToUpper(name[k]) ELSE ToLower(name[k])]

\* base_name.lower()
lower(name) == [k \in 1..Len(name) |-> ToLower(name[k])]

\* sep.join(reversed(fields)), a join that loses the declared order
join_Reversed(sep, fields) ==
    LET F[k \in 0..Len(fields)] ==
            IF k = 0 THEN <<>>
            ELSE IF k = 1 THEN <<fields[Len(fields)]>>
            ELSE F[k - 1] \o <<sep, fields[Len(fields) + 1 - k]>>
    IN  F[Len(fields)]

\* sep.join(fields)
join(sep, fields) ==
    LET F[k \in 0..Len(fields)] ==
            IF k = 0 THEN <<>>
            ELSE IF k = 1 THEN <<fields[1]>>
            ELSE F[k - 1] \o <<sep, fields[k]>>
    IN  F[Len(fields)]

(***************************************************************************)
(* The strings the code writes.                                            *)
(***************************************************************************)
\* a generator that forgets the import
ImportLine_Missing == <<>>

ImportLine == <<"use scanner::{Literal, Token};\n">>

BlankLine == <<"\n">>

StructHead == <<"pub struct AST {\n">>

\* '    pub root: Vec<Box<Stmt>>,\n'
StructRoot == <<"    pub root: ", "Vec<Box<", "S", "t", "m", "t", ">>", ",\n">>

CloseBrace == <<"}\n">>

EnumHead(base_name) == <<"pub enum ">> \o capitalize(base_name) \o <<" {\n">>

EnumArm(class_name, fields) ==
    <<"    ", class_name, "(">> \o join(", ", fields) \o <<"),\n">>

VisitorHead(base_name) ==
    <<"pub trait ">> \o capitalize(base_name) \o <<"Visitor<E> {\n">>

VisitorFn(base_name) ==
    <<"    fn ", "visit_">> \o base_name \o <<"(&mut self, ">> \o lower(base_name)
        \o <<": &Box<">> \o capitalize(base_name) \o <<">) -> E;\n">>

(***************************************************************************)
(* The inputs: grammars (enum_descriptions) drawn from four families of    *)
(* cases, the directory and the artifact found there.                      *)
(***************************************************************************)
Expr == <<"e", "x", "p", "r">>
Stmt == <<"s", "t", "m", "t">>

NameLetters == {"e", "E", "x", "X"}
Names == SeqsUpTo(NameLetters, MaxNameLen) \ {<<>>}

FieldDescriptors == {"Token", "Box<Expr>"}
FieldLists == SeqsUpTo(FieldDescriptors, MaxFields)

Variant(class_name, fields) == [class_name |-> class_name, fields |-> fields]

VariantPool ==
    { Variant("Literal", <<"Literal">>),
      Variant("Unary", <<"Token", "Box<Expr>">>),
      Variant("Unary", <<"Box<Expr>", "Token">>),
      Variant("Grouping", <<>>) }

ExprTypes == << Variant("Literal", <<"Literal">>),
                Variant("Unary", <<"Token", "Box<Expr>">>) >>
StmtTypes == << Variant("Print", <<"Box<Expr>">>) >>

Family(base_name, types) == [base_name |-> base_name, types |-> types]

FamilyPool == {Family(Expr, ExprTypes), Family(Stmt, StmtTypes)}

NamingGrammars == {<<Family(n, StmtTypes)>> : n \in Names}
VariantGrammars == {<<Family(Expr, ts)>> : ts \in SeqsUpTo(VariantPool, MaxVariants)}
FieldGrammars == {<<Family(Stmt, <<Variant("Call", fs)>>)>> : fs \in FieldLists}
CompositionGrammars == SeqsUpTo(FamilyPool, MaxFamilies)

Grammars ==
    NamingGrammars \cup VariantGrammars \cup FieldGrammars \cup CompositionGrammars

StaleContent == <<"// stale\n", "// stale\n">>

NoRun == [set |-> FALSE, grammar |-> <<>>, content |-> <<>>, aborted |-> 0]

InitWith(G) ==
    /\ enum_descriptions \in G
    /\ dirState \in {"missing", "unwritable", "ok"}
    /\ exists \in (IF dirState = "missing" THEN {FALSE} ELSE BOOLEAN)
    /\ content \in (IF exists THEN {<<>>, StaleContent} ELSE {<<>>})
    /\ existed = exists
    /\ handle = "Unopened"
    /\ pc = "open"
    /\ i = 1
    /\ j = 1
    /\ outcome = "running"
    /\ nwrites = 0
    /\ failed = FALSE
    /\ closes = 0
    /\ run = 1
    /\ lastOk = NoRun

Init == InitWith(Grammars)

(***************************************************************************)
(* with open(f'{output_dir}/ast.rs', 'w') as f                             *)
(***************************************************************************)
\* open() can create or truncate the file
CanOpen == dirState = "ok" \/ (dirState = "unwritable" /\ exists)

\* open(..., 'a'): the file is opened without being truncated
OpenTruncates_Appends ==
    /\ pc = "open"
    /\ CanOpen
    /\ exists' = TRUE
    /\ handle' = "Open"
    /\ pc' = "import"
    /\ UNCHANGED <<dirState, content, existed, enum_descriptions, i, j, outcome,
                   nwrites, failed, closes, run, lastOk>>

\* open(..., 'w') succeeds: the file is created or truncated
OpenTruncates ==
    /\ pc = "open"
    /\ CanOpen
    /\ exists' = TRUE
    /\ content' = <<>>
    /\ handle' = "Open"
    /\ pc' = "import"
    /\ UNCHANGED <<dirState, existed, enum_descriptions, i, j, outcome, nwrites,
                   failed, closes, run, lastOk>>

\* the OSError of open() caught and dropped: generate_AST returns
OpenRaises_Swallowed ==
    /\ pc = "open"
    /\ pc' = "done"
    /\ outcome' = "ok"
    /\ UNCHANGED <<dirState, exists, content, existed, enum_descriptions, handle,
                   i, j, nwrites, failed, closes, run, lastOk>>

\* open() raises OSError (always when it cannot create or truncate the file,
\* possibly for another reason otherwise): nothing was entered, it propagates
OpenRaises ==
    /\ pc = "open"
    /\ pc' = "done"
    /\ outcome' = "error"
    /\ UNCHANGED <<dirState, exists, content, existed, enum_descriptions, handle,
                   i, j, nwrites, failed, closes, run, lastOk>>

(***************************************************************************)
(* file.write(text): one call, which returns or raises.                    *)
(***************************************************************************)
Entry == enum_descriptions[i]

\* for (base_name, types) in enum_descriptions: the statement after entry k - 1
ForFamily(k) == IF k <= Len(enum_descriptions) THEN "enum_nl" ELSE "exit"

\* for class_name, fields in types: the statement after arm k - 1
ForType(k) == IF k <= Len(Entry.types) THEN "enum_arm" ELSE "enum_close"

Write(from, text, to, ni, nj) ==
    /\ pc = from
    /\ handle = "Open"
    /\ content' = content \o text
    /\ nwrites' = nwrites + 1
    /\ pc' = to
    /\ i' = ni
    /\ j' = nj
    /\ UNCHANGED <<dirState, exists, existed, enum_descriptions, handle, outcome,
                   failed, closes, run, lastOk>>

WritePcs ==
    {"import", "struct_nl", "struct_head", "struct_root", "struct_close",
     "enum_nl", "enum_head", "enum_arm", "enum_close",
     "visitor_nl", "visitor_head", "visitor_fn", "visitor_close"}

\* f.write("use scanner::{Literal, Token};\n")
WriteImport == Write("import", ImportLine, "struct_nl", i, j)

\* write_ast_struct(f)
WriteStructBlank == Write("struct_nl", BlankLine, "struct_head", i, j)
WriteStructHead == Write("struct_head", StructHead, "struct_root", i, j)
WriteStructRoot == Write("struct_root", StructRoot, "struct_close", i, j)
WriteStructClose == Write("struct_close", CloseBrace, ForFamily(1), 1, j)

\* write_enum(f, base_name, types)
WriteEnumBlank == Write("enum_nl", BlankLine, "enum_head", i, j)
WriteEnumHead == Write("enum_head", EnumHead(Entry.base_name), ForType(1), i, 1)
WriteEnumArm ==
    Write("enum_arm", EnumArm(Entry.types[j].class_name, Entry.types[j].fields),
          ForType(j + 1), i, j + 1)

\* a loop body that calls write_enum only
WriteEnumClose_SkipsVisitor ==
    Write("enum_close", CloseBrace, ForFamily(i + 1), i + 1, j)

WriteEnumClose == Write("enum_close", CloseBrace, "visitor_nl", i, j)

\* write_visitor(f, base_name)
WriteVisitorBlank == Write("visitor_nl", BlankLine, "visitor_head", i, j)
WriteVisitorHead ==
    Write("visitor_head", VisitorHead(Entry.base_name), "visitor_fn", i, j)
WriteVisitorFn == Write("visitor_fn", VisitorFn(Entry.base_name), "visitor_close", i, j)
WriteVisitorClose == Write("visitor_close", CloseBrace, ForFamily(i + 1), i + 1, j)

\* a raising write with f opened outside a with block: f is never closed
WriteRaises_LeavesOpen ==
    /\ pc \in WritePcs
    /\ handle = "Open"
    /\ failed' = TRUE
    /\ outcome' = "error"
    /\ pc' = "done"
    /\ UNCHANGED <<dirState, exists, content, existed, enum_descriptions, handle,
                   i, j, nwrites, closes, run, lastOk>>

\* a raising write caught and dropped: generate_AST returns
WriteRaises_Swallowed ==
    /\ pc \in WritePcs
    /\ handle = "Open"
    /\ failed' = TRUE
    /\ handle' = "Finalized"
    /\ closes' = closes + 1
    /\ outcome' = "ok"
    /\ pc' = "done"
    /\ UNCHANGED <<dirState, exists, content, existed, enum_descriptions, i, j,
                   nwrites, run, lastOk>>

\* a file.write call raises: the with block closes f and the exception
\* leaves generate_AST
WriteRaises ==
    /\ pc \in WritePcs
    /\ handle = "Open"
    /\ failed' = TRUE
    /\ handle' = "Finalized"
    /\ closes' = closes + 1
    /\ outcome' = "error"
    /\ pc' = "done"
    /\ UNCHANGED <<dirState, exists, content, existed, enum_descriptions, i, j,
                   nwrites, run, lastOk>>

\* the with block ends: f is closed and generate_AST returns
Close ==
    /\ pc = "exit"
    /\ handle = "Open"
    /\ handle' = "Finalized"
    /\ closes' = closes + 1
    /\ outcome' = "ok"
    /\ pc' = "done"
    /\ UNCHANGED <<dirState, exists, content, existed, enum_descriptions, i, j,
                   nwrites, failed, run, lastOk>>

Next ==
    \/ OpenTruncates
    \/ OpenRaises
    \/ WriteImport
    \/ WriteStructBlank
    \/ WriteStructHead
    \/ WriteStructRoot
    \/ WriteStructClose
    \/ WriteEnumBlank
    \/ WriteEnumHead
    \/ WriteEnumArm
    \/ WriteEnumClose
    \/ WriteVisitorBlank
    \/ WriteVisitorHead
    \/ WriteVisitorFn
    \/ WriteVisitorClose
    \/ WriteRaises
    \/ Close

Spec == Init /\ [][Next]_vars

(***************************************************************************)
(* A later invocation of generate_AST on the same output_dir.              *)
(***************************************************************************)
Reinvoke ==
    /\ pc = "done"
    /\ run < MaxRuns
    /\ enum_descriptions' \in CompositionGrammars
    /\ lastOk' = IF outcome = "ok"
                 THEN [set |-> TRUE, grammar |-> enum_descriptions,
                       content |-> content, aborted |-> 0]
                 ELSE IF failed
                 THEN [lastOk EXCEPT !.aborted = @ + 1]
                 ELSE lastOk
    /\ run' = run + 1
    /\ existed' = exists
    /\ handle' = "Unopened"
    /\ pc' = "open"
    /\ i' = 1
    /\ j' = 1
    /\ outcome' = "running"
    /\ nwrites' = 0
    /\ failed' = FALSE
    /\ closes' = 0
    /\ UNCHANGED <<dirState, exists, content>>

InitRerun == InitWith(CompositionGrammars)

NextRerun == Next \/ Reinvoke

SpecRerun == InitRerun /\ [][NextRerun]_vars

(***************************************************************************)
(* Reading an artifact back: the definitions it holds, in order, and the   *)
(* names, arms and fields written in them.                                 *)
(***************************************************************************)
ImportToken == "use scanner::{Literal, Token};\n"
StructToken == "pub struct AST {\n"
EnumToken == "pub enum "
TraitToken == "pub trait "

DefinitionTokens == {ImportToken, StructToken, EnumToken, TraitToken}

IsDefinitionToken(t) == t \in DefinitionTokens

\* the tokens that begin a definition, in the order they occur in text
DefinitionsIn(text) == SelectSeq(text, IsDefinitionToken)

\* the indices at which tok occurs in text, ascending
PositionsOf(text, tok) ==
    LET at == {k \in 1..Len(text) : text[k] = tok}
    IN  [n \in 1..Cardinality(at) |->
            CHOOSE k \in at : Cardinality({m \in at : m < k}) = n - 1]

CountOf(text, tok) == Len(PositionsOf(text, tok))

\* the first index >= p at which tok occurs, Len(text) + 1 when there is none
FirstFrom(text, p, tok) ==
    IF \E q \in p..Len(text) : text[q] = tok
    THEN CHOOSE q \in p..Len(text) :
            text[q] = tok /\ \A r \in p..(q - 1) : text[r] # tok
    ELSE Len(text) + 1

\* the tokens strictly between index p and the next occurrence of tok
Between(text, p, tok) == SubSeq(text, p + 1, FirstFrom(text, p + 1, tok) - 1)

\* the name written after the k-th occurrence of the token start, up to stop
NameAfter(text, start, k, stop) == Between(text, PositionsOf(text, start)[k], stop)

EnumName(text, k) == NameAfter(text, EnumToken, k, " {\n")
TraitName(text, k) == NameAfter(text, TraitToken, k, "Visitor<E> {\n")
OperationName(text, k) == NameAfter(text, "    fn ", k, "(&mut self, ")

\* text cut at every occurrence of sep; a text that ends in sep has no last piece
RECURSIVE SplitOn(_, _)
SplitOn(text, sep) ==
    IF text = <<>> THEN <<>>
    ELSE LET q == FirstFrom(text, 1, sep)
         IN  <<SubSeq(text, 1, q - 1)>> \o SplitOn(SubSeq(text, q + 1, Len(text)), sep)

\* an arm "    Name(f1, f2),\n" without its closing token, read back
ReadArm(arm) ==
    [class_name |-> arm[2], fields |-> SplitOn(SubSeq(arm, 4, Len(arm)), ", ")]

\* the arms of the k-th enum of text
ArmsOf(text, k) ==
    LET head == FirstFrom(text, PositionsOf(text, EnumToken)[k], " {\n")
        body == Between(text, head, "}\n")
        arms == SplitOn(body, "),\n")
    IN  [a \in 1..Len(arms) |-> ReadArm(arms[a])]

\* the type of the field root of the AST struct
RootType(text) == Between(text, PositionsOf(text, "    pub root: ")[1], ",\n")

Returned == pc = "done" /\ outcome = "ok"

(***************************************************************************)
(* C1.  When generate_AST returns, the definitions in the artifact are,    *)
(* in order: the scanner import, the AST struct once, then for each entry  *)
(* of enum_descriptions in order its enum immediately followed by the      *)
(* visitor trait of that same entry (the trait carries the enum's name,    *)
(* which is the entry's base_name up to letter case); and whenever the     *)
(* opened artifact holds anything, it begins with the import.              *)
(***************************************************************************)
ExpectedDefinitions(n) ==
    <<ImportToken, StructToken>>
        \o [k \in 1..(2 * n) |-> IF k % 2 = 1 THEN EnumToken ELSE TraitToken]

C1_DefinitionOrder ==
    /\ (handle # "Unopened" /\ content # <<>>) => content[1] = ImportToken
    /\ Returned =>
        /\ DefinitionsIn(content) = ExpectedDefinitions(Len(enum_descriptions))
        /\ \A k \in 1..Len(enum_descriptions) :
            /\ lower(EnumName(content, k)) = lower(enum_descriptions[k].base_name)
            /\ TraitName(content, k) = EnumName(content, k)

C1_Witness ==
    /\ Returned
    /\ Len(enum_descriptions) = 2
    /\ enum_descriptions[1].base_name = Expr
    /\ enum_descriptions[2].base_name = Stmt
    /\ DefinitionsIn(content) =
        <<ImportToken, StructToken, EnumToken, TraitToken, EnumToken, TraitToken>>

(***************************************************************************)
(* C2.  As claimed: the enum written for base_name f is named f with its   *)
(* first character upper-cased and the remaining characters unchanged.     *)
(***************************************************************************)
FirstUpperRestUnchanged(f) == <<ToUpper(Head(f))>> \o Tail(f)

C2_Claimed_RestUnchanged ==
    Returned =>
        \A k \in 1..Len(enum_descriptions) :
            EnumName(content, k) = FirstUpperRestUnchanged(enum_descriptions[k].base_name)

(***************************************************************************)
(* C2, amended.  The enum written for base_name f is named f with its      *)
(* first character upper-cased and every remaining character lower-cased.  *)
(***************************************************************************)
FirstUpperRestLower(f) ==
    <<ToUpper(Head(f))>> \o [k \in 1..(Len(f) - 1) |-> ToLower(Tail(f)[k])]

C2_FirstUpperRestLower ==
    Returned =>
        \A k \in 1..Len(enum_descriptions) :
            EnumName(content, k) = FirstUpperRestLower(enum_descriptions[k].base_name)

C2_Witness ==
    /\ Returned
    /\ Len(enum_descriptions) = 1
    /\ enum_descriptions[1].base_name = <<"e", "X">>
    /\ EnumName(content, 1) = <<"E", "x">>

(***************************************************************************)
(* C3.  The operation declared in the visitor trait written for base_name  *)
(* f is named "visit_" followed by f fully lower-cased.                    *)
(***************************************************************************)
C3_OperationNameLowerCased ==
    Returned =>
        \A k \in 1..Len(enum_descriptions) :
            OperationName(content, k) =
                <<"visit_">> \o lower(enum_descriptions[k].base_name)

(***************************************************************************)
(* C4.  The field root of the AST struct has the type the run is           *)
(* configured for: over a grammar whose only family is expr it is one      *)
(* owned Expr, and for every non-empty grammar the enum it names is one    *)
(* the same artifact defines.                                              *)
(***************************************************************************)
DefinedEnums(text) == {EnumName(text, k) : k \in 1..CountOf(text, EnumToken)}

\* the enum named by a root type Box<N> or Vec<Box<N>>
HeldBy(type) == SelectSeq(type, LAMBDA t : t \notin {"Box<", "Vec<Box<", ">", ">>"})

C4_RootTypeFollowsGrammar ==
    Returned =>
        /\ (Len(enum_descriptions) = 1 /\ enum_descriptions[1].base_name = Expr)
            => RootType(content) = <<"Box<", "E", "x", "p", "r", ">">>
        /\ Len(enum_descriptions) >= 1
            => HeldBy(RootType(content)) \in DefinedEnums(content)

(***************************************************************************)
(* C5.  Within an invocation the handle only moves Unopened -> Open ->     *)
(* Finalized: it is closed exactly once when the invocation has ended      *)
(* after opening it (by returning or by a write that raised), never        *)
(* reopened, and the artifact changes and write calls complete only        *)
(* while the handle is open.                                               *)
(***************************************************************************)
HandleStates ==
    /\ handle \in {"Unopened", "Open", "Finalized"}
    /\ handle = "Unopened" => closes = 0 /\ nwrites = 0
    /\ handle = "Open" => closes = 0 /\ outcome = "running"
    /\ handle = "Finalized" => closes = 1 /\ pc = "done"
    /\ pc = "done" => handle # "Open"

HandleMoves ==
    /\ handle' # handle =>
        \/ handle = "Unopened" /\ handle' = "Open"
        \/ handle = "Open" /\ handle' = "Finalized"
    /\ nwrites' # nwrites => handle = "Open" /\ handle' = "Open"
    /\ content' # content => handle' = "Open"

C5_HandleLifecycle == []HandleStates /\ [][HandleMoves]_vars

C5_Witness ==
    /\ failed
    /\ nwrites >= 3
    /\ handle = "Finalized"
    /\ closes = 1

(***************************************************************************)
(* C6.  As claimed: when output_dir does not exist or is not writable,     *)
(* the file is never opened, no write call happens, no artifact is         *)
(* created, and the invocation ends by raising.                            *)
(***************************************************************************)
NothingEmitted ==
    /\ handle = "Unopened"
    /\ nwrites = 0
    /\ exists = existed
    /\ pc = "done" => outcome = "error"

C6_Claimed_UnwritableFails == dirState \in {"missing", "unwritable"} => NothingEmitted

(***************************************************************************)
(* C6, amended.  When output_dir does not exist, or is not writable and    *)
(* holds no ast.rs yet, the file is never opened, no write call happens,   *)
(* no artifact is created, and the invocation ends by raising.             *)
(***************************************************************************)
C6_OpenFailsBeforeEmission ==
    (dirState = "missing" \/ (dirState = "unwritable" /\ ~existed))
        => NothingEmitted /\ ~exists /\ content = <<>>

C6_Witness ==
    /\ dirState = "unwritable"
    /\ ~existed
    /\ pc = "done"
    /\ outcome = "error"

(***************************************************************************)
(* C7.  Once a write call has raised, the invocation has ended by raising  *)
(* (never by returning); the raising step leaves the text already in the   *)
(* artifact as it is, and nothing is written or removed afterwards.        *)
(***************************************************************************)
FailureIsFinal == failed => pc = "done" /\ outcome = "error"

FailureKeepsText ==
    /\ (~failed /\ failed') => (content' = content /\ exists' = exists)
    /\ failed => UNCHANGED <<content, exists, nwrites, pc, outcome>>

C7_WriteFailureAborts == []FailureIsFinal /\ [][FailureKeepsText]_vars

C7_Witness ==
    /\ failed
    /\ outcome = "error"
    /\ nwrites >= 2
    /\ Len(content) >= 2
    /\ DefinitionsIn(content) = <<ImportToken>>

(***************************************************************************)
(* C8.  When generate_AST returns, the arms read back from the k-th enum   *)
(* are the k-th entry's types: the same class names in the same order      *)
(* with the same multiplicity, each with its fields in declared order.     *)
(***************************************************************************)
\* the arms declared by types, each field descriptor as the text it is
AsDeclared(types) ==
    [a \in 1..Len(types) |->
        [class_name |-> types[a].class_name,
         fields |-> [f \in 1..Len(types[a].fields) |-> <<types[a].fields[f]>>]]]

C8_ArmsAndFieldsPreserved ==
    Returned =>
        /\ CountOf(content, EnumToken) = Len(enum_descriptions)
        /\ \A k \in 1..Len(enum_descriptions) :
            ArmsOf(content, k) = AsDeclared(enum_descriptions[k].types)

C8_Witness ==
    /\ Returned
    /\ Len(enum_descriptions) = 1
    /\ enum_descriptions[1].types =
        << Variant("Unary", <<"Token", "Box<Expr>">>),
           Variant("Unary", <<"Box<Expr>", "Token">>) >>
    /\ ArmsOf(content, 1) =
        << [class_name |-> "Unary", fields |-> << <<"Token">>, <<"Box<Expr>">> >>],
           [class_name |-> "Unary", fields |-> << <<"Box<Expr>">>, <<"Token">> >>] >>

(***************************************************************************)
(* C9.  When generate_AST returns, the artifact holds as many enums as     *)
(* enum_descriptions has entries (none for an empty list; a repeated       *)
(* base_name counts each time), as many visitor traits as enums, and       *)
(* exactly one AST struct.                                                 *)
(***************************************************************************)
C9_DefinitionCounts ==
    Returned =>
        /\ CountOf(content, EnumToken) = Len(enum_descriptions)
        /\ CountOf(content, TraitToken) = CountOf(content, EnumToken)
        /\ CountOf(content, StructToken) = 1

C9_Witness ==
    /\ Returned
    /\ Len(enum_descriptions) = 2
    /\ enum_descriptions[1].base_name = enum_descriptions[2].base_name
    /\ CountOf(content, EnumToken) = 2

(***************************************************************************)
(* C10.  Whenever an invocation returns, the artifact equals the one left  *)
(* by the last earlier invocation that returned for the same               *)
(* enum_descriptions, whatever the artifact held in between (nothing, a    *)
(* stale file, the output of another grammar or of an aborted run).        *)
(***************************************************************************)
C10_SameGrammarSameArtifact ==
    (Returned /\ lastOk.set /\ lastOk.grammar = enum_descriptions)
        => content = lastOk.content

C10_Witness ==
    /\ Returned
    /\ run = 3
    /\ lastOk.set
    /\ lastOk.aborted = 1
    /\ lastOk.grammar = enum_descriptions
    /\ Len(enum_descriptions) = 2
    /\ content = lastOk.content

====
